---- MODULE Spec2Model ----
(***************************************************************************)
(* A model of the hex-crawl coordinate geometry: Hex (src/src/hex.ts) and  *)
(* HexPlane (src/unnamed/part_000, the revision of geometry.ts that has    *)
(* Rectangle.offset and getVisible).                                       *)
(*                                                                         *)
(* Numbers.  The program computes on IEEE 754 doubles, and so does the     *)
(* model: a number is sg * m * 2^e with the mantissa m a natural number of *)
(* at most 53 bits, and +, -, * and / round their exact result to the      *)
(* nearest such number, ties to the even mantissa.  TLC's integers are 32  *)
(* bits wide, so a mantissa is a sequence of 15-bit limbs, the least       *)
(* significant first.  Left out: the sign of zero, and the ends of the     *)
(* exponent range (no number here is near 1e308 or 1e-308).                *)
(***************************************************************************)
EXTENDS Integers, Sequences, FiniteSets, TLC

\* ------------------------------------------------------------------------
\* Natural numbers of any size: <<>> is 0, the last limb is never 0.
\* ------------------------------------------------------------------------
LimbBits == 15
Base == 2^LimbBits

Limb(m, i) == IF i <= Len(m) THEN m[i] ELSE 0

RECURSIVE MagTrim(_)
MagTrim(m) ==
    IF m = <<>> THEN <<>>
    ELSE IF m[Len(m)] = 0 THEN MagTrim(SubSeq(m, 1, Len(m) - 1))
    ELSE m

RECURSIVE MagOfNat(_)
MagOfNat(n) == IF n = 0 THEN <<>> ELSE <<n % Base>> \o MagOfNat(n \div Base)

RECURSIVE MagToNatAt(_, _)
MagToNatAt(m, i) == IF i > Len(m) THEN 0 ELSE m[i] + Base * MagToNatAt(m, i + 1)
MagToNat(m) == MagToNatAt(m, 1)

RECURSIVE MagAddFrom(_, _, _, _)
MagAddFrom(a, b, i, c) ==
    IF i > Len(a) /\ i > Len(b)
    THEN (IF c = 0 THEN <<>> ELSE <<c>>)
    ELSE <<(Limb(a, i) + Limb(b, i) + c) % Base>>
         \o MagAddFrom(a, b, i + 1, (Limb(a, i) + Limb(b, i) + c) \div Base)
MagAdd(a, b) == MagAddFrom(a, b, 1, 0)

\* a - b for a >= b
RECURSIVE MagSubFrom(_, _, _, _)
MagSubFrom(a, b, i, br) ==
    IF i > Len(a) THEN <<>>
    ELSE IF a[i] - Limb(b, i) - br < 0
         THEN <<a[i] - Limb(b, i) - br + Base>> \o MagSubFrom(a, b, i + 1, 1)
         ELSE <<a[i] - Limb(b, i) - br>> \o MagSubFrom(a, b, i + 1, 0)
MagSub(a, b) == MagTrim(MagSubFrom(a, b, 1, 0))

\* -1, 0 or 1 as a < b, a = b, a > b
RECURSIVE MagCmpAt(_, _, _)
MagCmpAt(a, b, i) ==
    IF i = 0 THEN 0
    ELSE IF a[i] < b[i] THEN -1
    ELSE IF a[i] > b[i] THEN 1
    ELSE MagCmpAt(a, b, i - 1)
MagCmp(a, b) ==
    IF Len(a) < Len(b) THEN -1
    ELSE IF Len(a) > Len(b) THEN 1
    ELSE MagCmpAt(a, b, Len(a))

\* a * k for one limb 0 <= k < Base
RECURSIVE MagMulSFrom(_, _, _, _)
MagMulSFrom(a, k, i, c) ==
    IF i > Len(a)
    THEN (IF c = 0 THEN <<>> ELSE <<c>>)
    ELSE <<(a[i] * k + c) % Base>> \o MagMulSFrom(a, k, i + 1, (a[i] * k + c) \div Base)
MagMulS(a, k) == IF k = 0 \/ a = <<>> THEN <<>> ELSE MagMulSFrom(a, k, 1, 0)

\* a * Base^n
RECURSIVE MagLimbsUp(_, _)
MagLimbsUp(a, n) == IF n = 0 \/ a = <<>> THEN a ELSE MagLimbsUp(<<0>> \o a, n - 1)

RECURSIVE MagMulFrom(_, _, _)
MagMulFrom(a, b, j) ==
    IF j > Len(b) THEN <<>>
    ELSE MagAdd(MagMulS(a, b[j]), MagLimbsUp(MagMulFrom(a, b, j + 1), 1))
MagMul(a, b) ==
    IF a = <<1>> THEN b
    ELSE IF b = <<1>> THEN a
    ELSE IF Len(a) >= Len(b) THEN MagMulFrom(a, b, 1) ELSE MagMulFrom(b, a, 1)

\* a mod k and a div k for one k with 0 < k < 2 * Base
RECURSIVE MagModSAt(_, _, _, _)
MagModSAt(a, k, i, r) == IF i = 0 THEN r ELSE MagModSAt(a, k, i - 1, (r * Base + a[i]) % k)
MagModS(a, k) == MagModSAt(a, k, Len(a), 0)

RECURSIVE MagDivSAt(_, _, _, _)
MagDivSAt(a, k, i, r) ==
    IF i = 0 THEN <<>>
    ELSE MagDivSAt(a, k, i - 1, (r * Base + a[i]) % k) \o <<(r * Base + a[i]) \div k>>
MagDivS(a, k) == MagTrim(MagDivSAt(a, k, Len(a), 0))

\* a * 2^k and a div 2^k
ShiftLeft(a, k) == MagLimbsUp(MagMulS(a, 2^(k % LimbBits)), k \div LimbBits)
ShiftRight(a, k) ==
    IF k \div LimbBits >= Len(a) THEN <<>>
    ELSE MagDivS(SubSeq(a, (k \div LimbBits) + 1, Len(a)), 2^(k % LimbBits))

\* the number of bits of a, and the number of 0 bits a ends with
RECURSIVE BitsOf(_)
BitsOf(x) == IF x = 0 THEN 0 ELSE 1 + BitsOf(x \div 2)
BitLen(a) == IF a = <<>> THEN 0 ELSE LimbBits * (Len(a) - 1) + BitsOf(a[Len(a)])

RECURSIVE ZerosOf(_)
ZerosOf(x) == IF x % 2 = 1 THEN 0 ELSE 1 + ZerosOf(x \div 2)
RECURSIVE ZeroLimbs(_, _)
ZeroLimbs(a, i) == IF a[i] # 0 THEN i - 1 ELSE ZeroLimbs(a, i + 1)
TrailingZeros(a) == LimbBits * ZeroLimbs(a, 1) + ZerosOf(a[ZeroLimbs(a, 1) + 1])

\* ------------------------------------------------------------------------
\* Numbers [sg, m, e]: the value sg * m * 2^e with sg in {-1, 0, 1} and m
\* odd; zero is [0, <<>>, 0].  The three other doubles have an empty
\* mantissa too: Infinity is [1, <<>>, 0], -Infinity [-1, <<>>, 0] and NaN
\* [0, <<>>, 1].  The X operators are exact, the F operators are the
\* program's +, -, * and /, which round to 53 bits.
\* ------------------------------------------------------------------------
MantissaBits == 53

NaN == [sg |-> 0, m |-> <<>>, e |-> 1]
Infinity(sg) == [sg |-> sg, m |-> <<>>, e |-> 0]
Zero == [sg |-> 0, m |-> <<>>, e |-> 0]
IsNaN(a) == a = NaN
IsInfinite(a) == a.m = <<>> /\ a.sg # 0
IsFinite(a) == ~IsNaN(a) /\ ~IsInfinite(a)

\* sg * m * 2^e with the 0 bits m ends with moved into the exponent
Odd(sg, m, e, z) == [sg |-> sg, m |-> ShiftRight(m, z), e |-> e + z]
Exact(sg, m, e) == IF m = <<>> \/ sg = 0 THEN Zero ELSE Odd(sg, m, e, TrailingZeros(m))

\* the nearest number of 53 bits, the tie to the even mantissa: q is m
\* without its last k bits, and c compares those bits with a half
RoundUp(sg, q, e, c) ==
    IF c > 0 \/ (c = 0 /\ q[1] % 2 = 1) THEN Exact(sg, MagAdd(q, <<1>>), e) ELSE Exact(sg, q, e)
RoundAt(sg, m, e, k, q) ==
    RoundUp(sg, q, e + k, MagCmp(MagSub(m, ShiftLeft(q, k)), ShiftLeft(<<1>>, k - 1)))
RoundBits(sg, m, e, k) == RoundAt(sg, m, e, k, ShiftRight(m, k))
Fl(a) ==
    IF BitLen(a.m) <= MantissaBits THEN a
    ELSE RoundBits(a.sg, a.m, a.e, BitLen(a.m) - MantissaBits)

Sgn(k) == IF k < 0 THEN -1 ELSE IF k = 0 THEN 0 ELSE 1
Abs(k) == IF k < 0 THEN -k ELSE k
Min(a, b) == IF a <= b THEN a ELSE b

\* the number of an Int
D(k) == Exact(Sgn(k), MagOfNat(Abs(k)), 0)

\* the mantissa of a finite number at the exponent e <= a.e
At(a, e) == ShiftLeft(a.m, a.e - e)

FNeg(a) == [sg |-> -a.sg, m |-> a.m, e |-> a.e]
FAbs(a) == [sg |-> a.sg * a.sg, m |-> a.m, e |-> a.e]

\* the exact sum and product of two finite numbers
SignedSum(sa, ma, sb, mb, e) ==
    IF sa = 0 THEN Exact(sb, mb, e)
    ELSE IF sb = 0 THEN Exact(sa, ma, e)
    ELSE IF sa = sb THEN Exact(sa, MagAdd(ma, mb), e)
    ELSE IF MagCmp(ma, mb) >= 0 THEN Exact(sa, MagSub(ma, mb), e)
    ELSE Exact(sb, MagSub(mb, ma), e)
XAddAt(a, b, e) == SignedSum(a.sg, At(a, e), b.sg, At(b, e), e)
XAdd(a, b) == XAddAt(a, b, Min(a.e, b.e))
XSub(a, b) == XAdd(a, FNeg(b))
XMul(a, b) == Exact(a.sg * b.sg, MagMul(a.m, b.m), a.e + b.e)

\* -1, 0 or 1 as a < b, a = b, a > b, for two numbers that are not NaN
XCmp(a, b) ==
    IF a.sg # b.sg THEN (IF a.sg < b.sg THEN -1 ELSE 1)
    ELSE IF a.sg = 0 THEN 0
    ELSE IF IsInfinite(a) \/ IsInfinite(b)
    THEN (IF IsInfinite(a) /\ IsInfinite(b) THEN 0 ELSE IF IsInfinite(a) THEN a.sg ELSE -a.sg)
    ELSE a.sg * MagCmp(At(a, Min(a.e, b.e)), At(b, Min(a.e, b.e)))

\* <, <=, > and ===: a comparison with NaN is false
Ordered(a, b) == ~IsNaN(a) /\ ~IsNaN(b)
FLt(a, b) == Ordered(a, b) /\ XCmp(a, b) < 0
FLe(a, b) == Ordered(a, b) /\ XCmp(a, b) <= 0
FGt(a, b) == Ordered(a, b) /\ XCmp(a, b) > 0
FEq(a, b) == Ordered(a, b) /\ XCmp(a, b) = 0

\* a + b, a - b and a * b
FAdd(a, b) ==
    IF IsNaN(a) \/ IsNaN(b) THEN NaN
    ELSE IF IsInfinite(a) /\ IsInfinite(b) THEN (IF a.sg = b.sg THEN a ELSE NaN)
    ELSE IF IsInfinite(a) THEN a
    ELSE IF IsInfinite(b) THEN b
    ELSE Fl(XAdd(a, b))
FSub(a, b) == FAdd(a, FNeg(b))
FMul(a, b) ==
    IF IsNaN(a) \/ IsNaN(b) THEN NaN
    ELSE IF IsInfinite(a) \/ IsInfinite(b)
    THEN (IF a.sg * b.sg = 0 THEN NaN ELSE Infinity(a.sg * b.sg))
    ELSE Fl(XMul(a, b))

\* a / b of two finite numbers, b # 0: the mantissa of a, with g bits put
\* after it so that the quotient has 56 bits or more, is divided by the
\* mantissa of b (by one limb at a time where that is one limb, else bit by
\* bit), and one more bit tells whether the division left a remainder.
\* (Len(q) = Len(q) makes TLC compute q now and not when the division ends.)
RECURSIVE LongDivide(_, _, _, _)
LongDivide(left, m, k, q) ==
    IF k < 0 THEN [q |-> q, left |-> left]
    ELSE IF Len(q) = Len(q) /\ MagCmp(ShiftLeft(m, k), left) <= 0
    THEN LongDivide(MagSub(left, ShiftLeft(m, k)), m, k - 1, MagAdd(MagAdd(q, q), <<1>>))
    ELSE LongDivide(left, m, k - 1, MagAdd(q, q))
DivideMag(n, m) ==
    IF Len(m) = 1
    THEN [q |-> MagDivS(n, m[1]), left |-> MagOfNat(MagModS(n, m[1]))]
    ELSE LongDivide(n, m, BitLen(n) - BitLen(m), <<>>)
Quotient(sg, d, e) ==
    Fl(Exact(sg, MagAdd(MagAdd(d.q, d.q), IF d.left = <<>> THEN <<>> ELSE <<1>>), e - 1))
DivideAt(a, b, g) == Quotient(a.sg * b.sg, DivideMag(ShiftLeft(a.m, g), b.m), a.e - g - b.e)
Divide(a, b) == DivideAt(a, b, MantissaBits + 3 + BitLen(b.m) - BitLen(a.m))
\* a / b; the zero of the model is +0
FDiv(a, b) ==
    IF IsNaN(a) \/ IsNaN(b) THEN NaN
    ELSE IF IsInfinite(b) THEN (IF IsInfinite(a) THEN NaN ELSE Zero)
    ELSE IF b = Zero THEN (IF a.sg = 0 THEN NaN ELSE Infinity(a.sg))
    ELSE IF IsInfinite(a) THEN Infinity(a.sg * b.sg)
    ELSE IF a = Zero THEN Zero
    ELSE Divide(a, b)

\* Math.floor, Math.ceil and Math.round (x.5 rounds up): a non-finite
\* number comes back as it is
FloorOf(a) ==
    IF a.e >= 0 THEN a
    ELSE IF a.sg > 0 THEN Exact(1, ShiftRight(a.m, -a.e), 0)
    ELSE Exact(-1, MagAdd(ShiftRight(a.m, -a.e), <<1>>), 0)
MathFloor(a) == IF IsFinite(a) THEN FloorOf(a) ELSE a
MathCeil(a) == FNeg(MathFloor(FNeg(a)))
MathRound(a) == IF IsFinite(a) THEN FloorOf(XAdd(a, [sg |-> 1, m |-> <<1>>, e |-> -1])) ELSE a

\* a number as the model shows it: a finite integer as an Int, anything else
\* (a fraction, Infinity, NaN) as it is
Num(a) == IF IsFinite(a) /\ a.e >= 0 THEN a.sg * MagToNat(At(a, 0)) ELSE a

\* the number a decimal literal k / 10^n stands for: the nearest to k / d
Dec(k, d) == FDiv(D(k), D(d))

\* ------------------------------------------------------------------------
\* Hex (hex.ts)
\* ------------------------------------------------------------------------
Hex(q, r) == [q |-> q, r |-> r]

\* Units with NE and NW in each other's place: not the order the claim on
\* neighbors() gives
UnitsSwapped == <<Hex(1, 0), Hex(0, 1), Hex(-1, 1), Hex(-1, 0), Hex(1, -1), Hex(0, -1)>>

\* Hex.Units, indexed 1..6 here for the source's 0..5
Units == <<Hex(1, 0), Hex(0, 1), Hex(-1, 1), Hex(-1, 0), Hex(0, -1), Hex(1, -1)>>

\* Hex.add of two integer hexes
add(first, second) == Hex(first.q + second.q, first.r + second.r)

\* the getter s of a hex with fractional coordinates
s(h) == FSub(FMul(D(-1), h.q), h.r)

\* neighbors(i) wrapping the index round the six directions
neighborsWrapped(h, i) ==
    [status |-> "returns", returned |-> add(h, Units[(i % 6) + 1])]

\* neighbors(i): Units[i] is undefined outside 0..5 and add(undefined) throws
neighbors(h, i) ==
    IF i \in 0..5
    THEN [status |-> "returns", returned |-> add(h, Units[i + 1])]
    ELSE [status |-> "TypeError", returned |-> <<>>]

\* neighbors(): Units.map(unit => this.add(unit))
neighborsAll(h) ==
    << add(h, Units[1]), add(h, Units[2]), add(h, Units[3]),
       add(h, Units[4]), add(h, Units[5]), add(h, Units[6]) >>

\* toString(): `(${this.q}, ${this.r})`, the key of a hex in a HexMap
toString(h) == "(" \o ToString(h.q) \o ", " \o ToString(h.r) \o ")"

\* String(hs) of an array of hexes, which is what an array used as an
\* object key becomes: the strings of its elements joined by ","
RECURSIVE joinFrom(_, _)
joinFrom(hs, k) ==
    IF k > Len(hs) THEN "" ELSE "," \o toString(hs[k]) \o joinFrom(hs, k + 1)
arrayToString(hs) == IF hs = <<>> THEN "" ELSE toString(hs[1]) \o joinFrom(hs, 2)

\* ------------------------------------------------------------------------
\* HexArray and HexMap (hex.ts). A payload is a string, and so is the
\* undefined of the program. An array of the program is its length and
\* the elements it has: new Array(n) has length n and no element, and
\* map calls its callback for the elements there are, so that the holes
\* of an array stay holes.
\* ------------------------------------------------------------------------
Undefined == "undefined"
Threw == [status |-> "TypeError", returned |-> <<>>]
Returned(value) == [status |-> "returns", returned |-> value]

ArrayOfLength(n) == [length |-> n, at |-> <<>>]
\* a.map(() => value), the callbacks of the program taking no argument
ArrayMap(a, value) == [length |-> a.length, at |-> [k \in DOMAIN a.at |-> value]]
ArrayAt(a, k) == IF k \in DOMAIN a.at THEN a.at[k] ELSE Undefined
\* a[k] = t: an index from the length on lengthens the array
ArrayPut(a, k, t) ==
    [ length |-> IF k >= a.length THEN k + 1 ELSE a.length,
      at |-> [j \in DOMAIN a.at \cup {k} |-> IF j = k THEN t ELSE a.at[j]] ]

\* new HexArray(qMax, rMax, fill)
HexArrayGrid(qMax, rMax, fill) ==
    IF fill = Undefined
    THEN ArrayMap(ArrayOfLength(qMax), ArrayOfLength(rMax))
    ELSE ArrayMap(ArrayOfLength(qMax), ArrayMap(ArrayOfLength(rMax), fill))
HexArray(qMax, rMax, fill) ==
    [kind |-> "HexArray", qMax |-> qMax, rMax |-> rMax, grid |-> HexArrayGrid(qMax, rMax, fill)]

\* this.grid[h.q][h.r]: reading [h.r] of a row that is undefined throws
gridAt(grid, h) ==
    IF h.q \in DOMAIN grid.at THEN Returned(ArrayAt(grid.at[h.q], h.r)) ELSE Threw

\* HexArray.get(h) of a Hex
arrayGet(c, h) == gridAt(c.grid, h)

\* HexArray.get(h) of a Hex[]: the callback of h.map, and the map, which
\* throws what a call of its callback throws
arrayGetEach(c, each) ==
    IF 0 <= each.q /\ each.q < c.qMax THEN gridAt(c.grid, each) ELSE Returned(Undefined)
mapped(outs) ==
    IF \E k \in DOMAIN outs : outs[k].status # "returns"
    THEN Threw
    ELSE Returned([k \in DOMAIN outs |-> outs[k].returned])
arrayGetAll(c, hs) == mapped([k \in 1..Len(hs) |-> arrayGetEach(c, hs[k])])

\* HexArray.set(h, t): this.grid[h.q][h.r] = t
arraySet(c, h, t) ==
    IF h.q \in DOMAIN c.grid.at
    THEN [status |-> "returns",
          collection |-> [c EXCEPT !.grid.at[h.q] = ArrayPut(@, h.r, t)]]
    ELSE [status |-> "TypeError", collection |-> c]

\* new HexMap(): the store is {}
HexMap == [kind |-> "HexMap", store |-> <<>>]

\* this.store[key]; no key of the form "(q, r)" is a property that {}
\* inherits
storeAt(store, key) == IF key \in DOMAIN store THEN store[key] ELSE Undefined

\* HexMap.get(h) of a Hex: this.store[h]
mapGet(c, h) == Returned(storeAt(c.store, toString(h)))

\* HexMap.get(h) of a Hex[]: h.map((each) => this.store[h]), the key of
\* every element being the string of the whole array
mapGetAll(c, hs) == Returned([k \in 1..Len(hs) |-> storeAt(c.store, arrayToString(hs))])

\* HexMap.set(h, t): this.store[h] = t
storePut(store, key, t) ==
    [k \in DOMAIN store \cup {key} |-> IF k = key THEN t ELSE store[k]]
mapSet(c, h, t) ==
    [status |-> "returns", collection |-> [c EXCEPT !.store = storePut(@, toString(h), t)]]

\* the two implementations of IHexCollection behind the one interface
get(c, h) == IF c.kind = "HexArray" THEN arrayGet(c, h) ELSE mapGet(c, h)
getAll(c, hs) == IF c.kind = "HexArray" THEN arrayGetAll(c, hs) ELSE mapGetAll(c, hs)
set(c, h, t) == IF c.kind = "HexArray" THEN arraySet(c, h, t) ELSE mapSet(c, h, t)

\* neighbors(h, only) of either collection: this.get(h.neighbors(only)),
\* and this.get(h.neighbors()) without only
collectionNeighborsOf(c, n) == IF n.status = "returns" THEN get(c, n.returned) ELSE Threw
collectionNeighbors(c, h, only) == collectionNeighborsOf(c, neighbors(h, only))
collectionNeighborsAll(c, h) == getAll(c, neighborsAll(h))

\* ------------------------------------------------------------------------
\* Point, Rectangle and HexPlane (geometry.ts)
\* ------------------------------------------------------------------------
ROOT3 == Dec(173205, 100000)
IROOT3 == Dec(57735, 100000)

Point(px, py) == [x |-> px, y |-> py]
PointAdd(p, other) == Point(FAdd(p.x, other.x), FAdd(p.y, other.y))

Rectangle(rx, ry, rw, rh) == [x |-> rx, y |-> ry, w |-> rw, h |-> rh]
offset(rect, p) == Rectangle(FAdd(rect.x, p.x), FAdd(rect.y, p.y), rect.w, rect.h)

\* roundHexCubeOf with a sign slipped in its second branch (-rq + rs for
\* -rq - rs): the slip the assertion of roundHex is there to catch
roundHexCubeSlip(h, rq, rr, rs, dq, dr, ds) ==
    IF FGt(dq, dr) /\ FGt(dq, ds)
    THEN [rq |-> FSub(FNeg(rr), rs), rr |-> rr, rs |-> rs]
    ELSE IF FGt(dr, ds)
    THEN [rq |-> rq, rr |-> FAdd(FNeg(rq), rs), rs |-> rs]
    ELSE [rq |-> rq, rr |-> rr, rs |-> FSub(FNeg(rq), rr)]

\* roundHex up to its assertion: the three rounded cube coordinates after
\* the correction, as numbers
roundHexCubeOf(h, rq, rr, rs, dq, dr, ds) ==
    IF FGt(dq, dr) /\ FGt(dq, ds)
    THEN [rq |-> FSub(FNeg(rr), rs), rr |-> rr, rs |-> rs]
    ELSE IF FGt(dr, ds)
    THEN [rq |-> rq, rr |-> FSub(FNeg(rq), rs), rs |-> rs]
    ELSE [rq |-> rq, rr |-> rr, rs |-> FSub(FNeg(rq), rr)]

roundHexRounded(h, rq, rr, rs) ==
    roundHexCubeOf(h, rq, rr, rs,
                   FAbs(FSub(rq, h.q)), FAbs(FSub(rr, h.q)), FAbs(FSub(rs, s(h))))

roundHexCube(h) == roundHexRounded(h, MathRound(h.q), MathRound(h.r), MathRound(s(h)))

\* console.assert(rq + rr + rs === 0)
roundHexAssert(c) == FEq(FAdd(FAdd(c.rq, c.rr), c.rs), D(0))

\* return new Hex(rq, rr)
roundHexReturn(c) == Hex(Num(c.rq), Num(c.rr))
roundHex(h) == roundHexReturn(roundHexCube(h))

getVertexVectorsOf(a, b) ==
    << Point(a, FNeg(b)), Point(a, b), Point(D(0), FMul(D(2), b)),
       Point(FNeg(a), b), Point(FNeg(a), FNeg(b)), Point(D(0), FMul(D(-2), b)) >>
getVertexVectors(hexWidth) ==
    getVertexVectorsOf(FDiv(hexWidth, D(2)), FMul(FDiv(IROOT3, D(2)), hexWidth))

getBoundingBoxOf(hexWidth, a, b) == Rectangle(FNeg(a), FNeg(b), hexWidth, FMul(D(2), b))
getBoundingBox(hexWidth) ==
    getBoundingBoxOf(hexWidth, FDiv(hexWidth, D(2)), FMul(IROOT3, hexWidth))

\* the constructor: it takes any number and checks nothing
HexPlane(hexWidth) ==
    [ hexWidth      |-> hexWidth,
      hexHeight     |-> FMul(FMul(D(2), IROOT3), hexWidth),
      rowSeparation |-> FMul(FDiv(ROOT3, D(2)), hexWidth),
      vertexVectors |-> getVertexVectors(hexWidth),
      bBox          |-> getBoundingBox(hexWidth) ]

center(P, h) ==
    Point(FMul(FAdd(D(h.q), FDiv(D(h.r), D(2))), P.hexWidth),
          FMul(D(h.r), P.rowSeparation))

boundingBox(P, h) == offset(P.bBox, center(P, h))

\* hex(p) up to the call of roundHex: the fractional hex
hexFracOf(y, a, p) == Hex(FMul(a, FSub(FMul(ROOT3, p.x), y)), FMul(a, FMul(D(2), y)))
hexFrac(P, p) == hexFracOf(FSub(p.y, FMul(P.hexWidth, IROOT3)), FDiv(IROOT3, P.hexWidth), p)
hex(P, p) == roundHex(hexFrac(P, p))

\* this.vertexVectors.map( (v) => p.add(v) )
verticesAt(p, vs) ==
    << PointAdd(p, vs[1]), PointAdd(p, vs[2]), PointAdd(p, vs[3]),
       PointAdd(p, vs[4]), PointAdd(p, vs[5]), PointAdd(p, vs[6]) >>
vertices(P, h) == verticesAt(center(P, h), P.vertexVectors)

\* iMin % 2 of the program: the remainder has the sign of the dividend
JsRem(a, b) == IF a >= 0 THEN a % b ELSE -((-a) % b)
\* Math.ceil(n / 2) of an integer n
CeilHalf(n) == -((-n) \div 2)

\* visibleRangeOf without step two's jMax + 1
visibleRangeUnbumped(iMin, jMin, iMax, jMax) ==
    [ iMin |-> iMin, jMin |-> jMin, iMax0 |-> iMax, jMax0 |-> jMax,
      iMax |-> iMax, jMax |-> jMax ]

\* getVisible, steps one and two: the four floor indices as numbers
\* (iMax0 and jMax0 before the correction, iMax and jMax after it)
correctIMax(iMin, iMax) ==
    IF IsFinite(iMin) /\ IsFinite(iMax)
    THEN (IF Num(iMax) - JsRem(Num(iMin), 2) = 0 THEN iMax ELSE FAdd(iMax, D(1)))
    ELSE FAdd(iMax, D(1))

visibleRangeOf(iMin, jMin, iMax, jMax) ==
    [ iMin |-> iMin, jMin |-> jMin, iMax0 |-> iMax, jMax0 |-> jMax,
      iMax |-> correctIMax(iMin, iMax), jMax |-> FAdd(jMax, D(1)) ]

gridI(P, px) == MathFloor(FDiv(FMul(D(2), px), P.hexWidth))
gridJ(P, py) ==
    MathFloor(FAdd(FDiv(D(1), D(3)),
                   FDiv(FMul(FMul(D(2), py), IROOT3), P.hexWidth)))

visibleRangeAt(P, r, lowerRight) ==
    visibleRangeOf(gridI(P, r.x), gridJ(P, r.y), gridI(P, lowerRight.x), gridJ(P, lowerRight.y))
visibleRange(P, r) == visibleRangeAt(P, r, Point(FAdd(r.x, r.w), FAdd(r.y, r.h)))

\* step three, the two loops over integer indices
RECURSIVE innerLoop(_, _, _, _)
innerLoop(i, j, jMax, hexes) ==
    IF j <= jMax
    THEN innerLoop(i, j + 1, jMax, Append(hexes, Hex(CeilHalf(i - j), j)))
    ELSE hexes

\* outerLoop taking every i, not every other one
RECURSIVE outerLoopEvery(_, _, _, _, _)
outerLoopEvery(i, iMax, jMin, jMax, hexes) ==
    IF i <= iMax
    THEN outerLoopEvery(i + 1, iMax, jMin, jMax, innerLoop(i, jMin, jMax, hexes))
    ELSE hexes

RECURSIVE outerLoop(_, _, _, _, _)
outerLoop(i, iMax, jMin, jMax, hexes) ==
    IF i <= iMax
    THEN outerLoop(i + 2, iMax, jMin, jMax, innerLoop(i, jMin, jMax, hexes))
    ELSE hexes

\* With non-finite indices (hexWidth = 0) the loops either do not start, one
\* of the indices being NaN, or never end: i += 2 leaves an infinite i as it is.
getVisibleIn(g) ==
    IF IsFinite(g.iMin) /\ IsFinite(g.iMax) /\ IsFinite(g.jMin) /\ IsFinite(g.jMax)
    THEN [status |-> "returns",
          returned |-> outerLoop(Num(g.iMin), Num(g.iMax), Num(g.jMin), Num(g.jMax), <<>>)]
    ELSE IF FLe(g.iMin, g.iMax)
    THEN [status |-> "diverges", returned |-> <<>>]
    ELSE [status |-> "returns", returned |-> <<>>]

getVisible(P, r) == getVisibleIn(visibleRange(P, r))

\* ------------------------------------------------------------------------
\* The inputs of the calls
\* ------------------------------------------------------------------------
MaxCoord == 2
MaxWidth == 3
MaxGrid == 2
MaxSize == 2
MaxFrac == 10
FracDen == 10

Coords == (-MaxCoord)..MaxCoord
Hexes == {Hex(q, r) : q \in Coords, r \in Coords}

\* hexWidth: the integers from -1, which the constructor is given as it is
\* given any other, to MaxWidth, and 0.7, a width that is no integer
Widths == {D(w) : w \in (-1)..MaxWidth} \cup {Dec(7, 10)}

\* fractional hexes handed to roundHex: multiples of 1/FracDen
FracCoords == {Dec(k, FracDen) : k \in (-MaxFrac)..MaxFrac}
FracHexes == {Hex(q, r) : q \in FracCoords, r \in FracCoords}

\* direction indices, one below and one above the six directions
Indices == (-1)..6

\* plane points: the half-unit grid, and the centres of the hexes
GridCoords == {Dec(k, 2) : k \in (-MaxGrid)..MaxGrid}
GridPoints == {Point(px, py) : px \in GridCoords, py \in GridCoords}
CenterPoints(P) == {center(P, h) : h \in Hexes}
Points(P) == GridPoints \cup CenterPoints(P)

\* rectangles: on the grid with sides 0, 1/2, 1, ...; the bounding boxes of
\* the hexes; and the bounding boxes moved down by all but Fine of their
\* height, which leaves a sliver of the hex inside the rectangle's top edge
Sizes == {Dec(k, 2) : k \in 0..MaxSize}
GridRects == {Rectangle(p.x, p.y, w, h) : p \in GridPoints, w \in Sizes, h \in Sizes}
BoxRects(P) == {boundingBox(P, h) : h \in Hexes}
FineBits == 23
Fine == [sg |-> 1, m |-> <<1>>, e |-> -FineBits]
below(b) == Rectangle(b.x, FSub(FAdd(b.y, b.h), Fine), b.w, b.h)
EdgeRects(P) == {below(boundingBox(P, h)) : h \in Hexes}
Rects(P) == GridRects \cup BoxRects(P) \cup EdgeRects(P)

\* the collections: sizes of a HexArray from 0, hexes from one row and one
\* column outside the largest of them, two payloads, a fill or none, and
\* arrays of up to MaxLen hexes; a HexMap holds up to MaxStored keys
MaxDim == 2
MaxLen == 2
MaxStored == 2
Dims == 0..MaxDim
CollectionCoords == (-1)..MaxDim
CollectionHexes == {Hex(q, r) : q \in CollectionCoords, r \in CollectionCoords}
Payloads == {"a", "b"}
Fills == {Undefined, "a"}
HexArrays == UNION {[1..n -> CollectionHexes] : n \in 0..MaxLen}

\* ------------------------------------------------------------------------
\* The state: the plane the caller holds (NoPlane before any is made), and
\* the call it has just made: operation, argument, outcome, returned value
\* and whether console.assert reported a failed assertion during it; and
\* the collection the caller holds (NoCollection before any is made).
\* ------------------------------------------------------------------------
VARIABLES plane, collection, op, args, status, returned, assertFailed

vars == <<plane, collection, op, args, status, returned, assertFailed>>

NoPlane == [hexWidth |-> "none"]
HasPlane == plane # NoPlane
NoCollection == [kind |-> "none"]
HasCollection == collection.kind # "none"
Idle == op = "idle"

Init ==
    /\ plane = NoPlane
    /\ collection = NoCollection
    /\ op = "idle"
    /\ args = <<>>
    /\ status = "returns"
    /\ returned = <<>>
    /\ assertFailed = FALSE

Returns(name, a, value) ==
    /\ op' = name
    /\ args' = a
    /\ status' = "returns"
    /\ returned' = value

\* new HexPlane(hexWidth)
Construct(w) ==
    /\ Idle
    /\ plane' = HexPlane(w)
    /\ Returns("new", w, <<>>)
    /\ assertFailed' = FALSE
    /\ UNCHANGED collection

Center(h) ==
    /\ Idle /\ HasPlane
    /\ Returns("center", h, center(plane, h))
    /\ UNCHANGED <<plane, collection, assertFailed>>

BoundingBox(h) ==
    /\ Idle /\ HasPlane
    /\ Returns("boundingBox", h, boundingBox(plane, h))
    /\ UNCHANGED <<plane, collection, assertFailed>>

Vertices(h) ==
    /\ Idle /\ HasPlane
    /\ Returns("vertices", h, vertices(plane, h))
    /\ UNCHANGED <<plane, collection, assertFailed>>

HexAtCube(p, c) ==
    /\ Returns("hex", p, roundHexReturn(c))
    /\ assertFailed' = ~roundHexAssert(c)
HexAt ==
    /\ Idle /\ HasPlane
    /\ \E p \in Points(plane) : HexAtCube(p, roundHexCube(hexFrac(plane, p)))
    /\ UNCHANGED <<plane, collection>>

RoundHexCube(h, c) ==
    /\ Returns("roundHex", h, roundHexReturn(c))
    /\ assertFailed' = ~roundHexAssert(c)
RoundHex(h) ==
    /\ Idle
    /\ RoundHexCube(h, roundHexCube(h))
    /\ UNCHANGED <<plane, collection>>

GetVisibleOut(r, out) ==
    /\ op' = "getVisible"
    /\ args' = r
    /\ status' = out.status
    /\ returned' = out.returned
GetVisible ==
    /\ Idle /\ HasPlane
    /\ \E r \in Rects(plane) : GetVisibleOut(r, getVisible(plane, r))
    /\ UNCHANGED <<plane, collection, assertFailed>>

NeighborsOut(h, i, out) ==
    /\ op' = "neighbors"
    /\ args' = [h |-> h, i |-> i]
    /\ status' = out.status
    /\ returned' = out.returned
Neighbors(h, i) ==
    /\ Idle
    /\ NeighborsOut(h, i, neighbors(h, i))
    /\ UNCHANGED <<plane, collection, assertFailed>>

NeighborsAll(h) ==
    /\ Idle
    /\ Returns("neighborsAll", h, neighborsAll(h))
    /\ UNCHANGED <<plane, collection, assertFailed>>

\* the caller takes the outcome of the call and is ready for the next one
Done ==
    /\ ~Idle
    /\ op' = "idle"
    /\ args' = <<>>
    /\ status' = "returns"
    /\ returned' = <<>>
    /\ assertFailed' = FALSE
    /\ UNCHANGED <<plane, collection>>

Next ==
    \/ \E w \in Widths : Construct(w)
    \/ \E h \in Hexes : Center(h)
    \/ \E h \in Hexes : BoundingBox(h)
    \/ \E h \in Hexes : Vertices(h)
    \/ HexAt
    \/ \E h \in FracHexes : RoundHex(h)
    \/ GetVisible
    \/ \E h \in Hexes, i \in Indices : Neighbors(h, i)
    \/ \E h \in Hexes : NeighborsAll(h)
    \/ Done

Spec == Init /\ [][Next]_vars

\* ------------------------------------------------------------------------
\* The calls on a collection. The caller makes one collection, a HexArray
\* or a HexMap, and then gets, sets and asks for neighbors.
\* ------------------------------------------------------------------------
Outcome(name, a, out) ==
    /\ op' = name
    /\ args' = a
    /\ status' = out.status
    /\ returned' = out.returned

\* new HexArray(qMax, rMax, fill), fill being Undefined where none is given
NewHexArray(qMax, rMax, fill) ==
    /\ Idle /\ ~HasCollection
    /\ collection' = HexArray(qMax, rMax, fill)
    /\ Returns("newHexArray", <<qMax, rMax, fill>>, <<>>)
    /\ UNCHANGED <<plane, assertFailed>>

\* new HexMap()
NewHexMap ==
    /\ Idle /\ ~HasCollection
    /\ collection' = HexMap
    /\ Returns("newHexMap", <<>>, <<>>)
    /\ UNCHANGED <<plane, assertFailed>>

\* get(h), h instanceof Hex
Get(h) ==
    /\ Idle /\ HasCollection
    /\ Outcome("get", h, get(collection, h))
    /\ UNCHANGED <<plane, collection, assertFailed>>

\* get(h), h an array of hexes
GetAll(hs) ==
    /\ Idle /\ HasCollection
    /\ Outcome("getAll", hs, getAll(collection, hs))
    /\ UNCHANGED <<plane, collection, assertFailed>>

\* set(h, t); a HexMap of MaxStored keys is given no further key
SetOut(h, t, out) ==
    /\ collection' = out.collection
    /\ op' = "set"
    /\ args' = [h |-> h, t |-> t]
    /\ status' = out.status
    /\ returned' = <<>>
Set(h, t) ==
    /\ Idle /\ HasCollection
    /\ collection.kind = "HexMap" =>
            \/ toString(h) \in DOMAIN collection.store
            \/ Cardinality(DOMAIN collection.store) < MaxStored
    /\ SetOut(h, t, set(collection, h, t))
    /\ UNCHANGED <<plane, assertFailed>>

\* neighbors(h, only) and neighbors(h) of the collection
CollectionNeighbors(h, only) ==
    /\ Idle /\ HasCollection
    /\ Outcome("collectionNeighbors", [h |-> h, i |-> only], collectionNeighbors(collection, h, only))
    /\ UNCHANGED <<plane, collection, assertFailed>>

CollectionNeighborsAll(h) ==
    /\ Idle /\ HasCollection
    /\ Outcome("collectionNeighborsAll", h, collectionNeighborsAll(collection, h))
    /\ UNCHANGED <<plane, collection, assertFailed>>

CollectionNext ==
    \/ \E qMax \in Dims, rMax \in Dims, fill \in Fills : NewHexArray(qMax, rMax, fill)
    \/ NewHexMap
    \/ \E h \in CollectionHexes : Get(h)
    \/ \E hs \in HexArrays : GetAll(hs)
    \/ \E h \in CollectionHexes, t \in Payloads : Set(h, t)
    \/ \E h \in CollectionHexes, only \in Indices : CollectionNeighbors(h, only)
    \/ \E h \in CollectionHexes : CollectionNeighborsAll(h)
    \/ Done

CollectionSpec == Init /\ [][CollectionNext]_vars

\* ------------------------------------------------------------------------
\* What the claims speak of
\* ------------------------------------------------------------------------
IntRound(a) == Num(MathRound(a))
PositiveWidth == HasPlane /\ FGt(plane.hexWidth, Zero)
Called(name) == op = name /\ status = "returns"
Elements(list) == {list[k] : k \in 1..Len(list)}
SixNeighbors(h) ==
    { Hex(h.q + 1, h.r), Hex(h.q, h.r + 1), Hex(h.q - 1, h.r + 1),
      Hex(h.q - 1, h.r), Hex(h.q, h.r - 1), Hex(h.q + 1, h.r - 1) }

\* In the geometry of the claims a sum or product is the exact one (X).
\* two rectangles share a region of positive area
Overlaps(a, b) ==
    /\ FLt(a.x, XAdd(b.x, b.w)) /\ FLt(b.x, XAdd(a.x, a.w))
    /\ FLt(a.y, XAdd(b.y, b.h)) /\ FLt(b.y, XAdd(a.y, a.h))

\* the point lies in the rectangle, its edges included
Contains(rect, p) ==
    /\ FLe(rect.x, p.x) /\ FLe(p.x, XAdd(rect.x, rect.w))
    /\ FLe(rect.y, p.y) /\ FLe(p.y, XAdd(rect.y, rect.h))

\* the point lies strictly inside the convex hexagon with the corners vs:
\* it is strictly on the same side of all six edges
Cross(a, b, p) ==
    XSub(XMul(XSub(b.x, a.x), XSub(p.y, a.y)), XMul(XSub(b.y, a.y), XSub(p.x, a.x)))
StrictlyInside(p, vs) ==
    \A k \in 1..6 : Cross(vs[k], vs[(k % 6) + 1], p).sg = 1

\* C1: on a plane with hexWidth > 0, hex(center(h)) is h for every integer
\* hex h.
RoundTrip ==
    (Called("hex") /\ PositiveWidth)
        => \A h \in Hexes : args = center(plane, h) => returned = h

\* C2: on a plane with hexWidth > 0, getVisible(R) of a rectangle with w > 0
\* and h > 0 holds every hex whose bounding box overlaps R.
VisibleSound ==
    (Called("getVisible") /\ PositiveWidth /\ FGt(args.w, Zero) /\ FGt(args.h, Zero))
        => \A h \in Hexes : Overlaps(boundingBox(plane, h), args) => h \in Elements(returned)

\* C3: roundHex of finite fractional coordinates returns integers q and r,
\* and rq + rr + rs is 0 at its assertion whichever branch corrected the
\* rounding: the assertion never fails.
FiniteRounding == op = "roundHex" \/ (op = "hex" /\ ~FEq(plane.hexWidth, Zero))
RoundHexSumsToZero ==
    FiniteRounding => /\ ~assertFailed
                      /\ returned.q \in Int
                      /\ returned.r \in Int

\* the three roundings of q, r and s do not sum to 0 and the second branch
\* (the first is not taken, and dr > ds) repairs them
RBranch(h, rq, rr, rs) ==
    /\ IntRound(h.q) + IntRound(h.r) + IntRound(s(h)) # 0
    /\ ~FGt(FAbs(FSub(rq, h.q)), FAbs(FSub(rr, h.q)))
    /\ FGt(FAbs(FSub(rr, h.q)), FAbs(FSub(rs, s(h))))
RoundHexRepaired ==
    /\ op = "roundHex" /\ ~assertFailed
    /\ RBranch(args, MathRound(args.q), MathRound(args.r), MathRound(s(args)))

\* C4: roundHex returns what the reference cube rounding returns, which
\* recomputes the coordinate whose rounding error against its own fractional
\* coordinate is the largest.
RDist(k, a) == FAbs(FSub(D(k), a))
Larger(a, b) == FGt(a, b)
referenceRound(h) ==
    LET rq == IntRound(h.q)
        rr == IntRound(h.r)
        rs == IntRound(s(h))
        dq == RDist(rq, h.q)
        dr == RDist(rr, h.r)
        ds == RDist(rs, s(h))
    IN  IF Larger(dq, dr) /\ Larger(dq, ds) THEN Hex(-rr - rs, rr)
        ELSE IF Larger(dr, ds) THEN Hex(rq, -rq - rs)
        ELSE Hex(rq, rr)
RoundHexIsReference == op = "roundHex" => returned = referenceRound(args)

\* C5: on a plane with hexWidth > 0, hex(p) is h for every point p strictly
\* inside the hexagon with the corners vertices(h).
PointContainment ==
    (Called("hex") /\ PositiveWidth)
        => \A h \in Hexes : StrictlyInside(args, vertices(plane, h)) => returned = h

\* C6: boundingBox(h) is the rectangle (-hexWidth/2, -IROOT3 * hexWidth,
\* hexWidth, 2 * IROOT3 * hexWidth) moved by center(h), and on a plane with
\* hexWidth > 0 it contains the six points of vertices(h).
LocalBox(w) ==
    Rectangle(FNeg(FDiv(w, D(2))), FNeg(FMul(IROOT3, w)), w, FMul(D(2), FMul(IROOT3, w)))
MovedBy(rect, local, c) ==
    /\ FEq(rect.x, FAdd(local.x, c.x))
    /\ FEq(rect.y, FAdd(local.y, c.y))
    /\ FEq(rect.w, local.w)
    /\ FEq(rect.h, local.h)
BoundingBoxTranslated ==
    Called("boundingBox")
        => /\ MovedBy(returned, LocalBox(plane.hexWidth), center(plane, args))
           /\ PositiveWidth => \A k \in 1..6 : Contains(returned, vertices(plane, args)[k])

\* C7 as stated: on a plane with hexWidth > 0, getVisible(boundingBox(h)) is
\* not empty, holds h, and holds besides h only the six neighbors of h.
OfBox(h) == Called("getVisible") /\ PositiveWidth /\ args = boundingBox(plane, h)
BoxVisibleNeighbors ==
    \A h \in Hexes :
        OfBox(h) => /\ returned # <<>>
                    /\ h \in Elements(returned)
                    /\ Elements(returned) \subseteq {h} \cup SixNeighbors(h)

\* C7 as amended: getVisible(boundingBox(h)) is not empty, holds h, holds
\* no more than twelve hexes, and holds only hexes no further than two
\* steps from h: besides h and its neighbors, hexes of the second ring such
\* as (q - 1, r + 2) and (q, r + 2).
distance(a, b) == (Abs(a.q - b.q) + Abs(a.r - b.r) + Abs((a.q + a.r) - (b.q + b.r))) \div 2
BoxVisibleNear ==
    \A h \in Hexes :
        OfBox(h) => /\ returned # <<>>
                    /\ h \in Elements(returned)
                    /\ Len(returned) <= 12
                    /\ \A k \in 1..Len(returned) : distance(returned[k], h) <= 2
BoxVisibleSecondRow ==
    \E h \in Hexes : /\ OfBox(h)
                     /\ {Hex(h.q - 1, h.r + 2), Hex(h.q, h.r + 2)} \subseteq Elements(returned)

\* C8: on a plane with hexWidth > 0, getVisible of a rectangle with w >= 0
\* and h >= 0 returns, and returns a list that is not empty, of length
\* (number of i from iMin to the corrected iMax in steps of 2) times
\* (jMax - jMin + 2), for the floor indices iMin, jMin, iMax, jMax of the
\* rectangle's upper left and lower right corners.
Steps(lo, hi) == IF hi < lo THEN 0 ELSE ((hi - lo) \div 2) + 1
CountIn(g) ==
    Steps(Num(g.iMin), Num(g.iMax)) * (Num(g.jMax0) - Num(g.jMin) + 2)
VisibleCount ==
    (op = "getVisible" /\ PositiveWidth /\ FLe(Zero, args.w) /\ FLe(Zero, args.h))
        => /\ status = "returns"
           /\ Len(returned) >= 1
           /\ Len(returned) = CountIn(visibleRange(plane, args))
VisibleOfPoint ==
    /\ Called("getVisible") /\ PositiveWidth
    /\ FEq(args.w, Zero) /\ FEq(args.h, Zero)
    /\ Len(returned) >= 2

\* C9: neighbors(i) followed by neighbors((i + 3) % 6) is back at h for
\* every i in 0..5, and neighbors() is h + E(1,0), SE(0,1), SW(-1,1),
\* W(-1,0), NW(0,-1), NE(1,-1) in that order.
NeighborSymmetry ==
    /\ (op = "neighbors" /\ args.i \in 0..5)
        => /\ status = "returns"
           /\ neighbors(returned, (args.i + 3) % 6).returned = args.h
    /\ op = "neighborsAll"
        => returned = << Hex(args.q + 1, args.r), Hex(args.q, args.r + 1), Hex(args.q - 1, args.r + 1),
                    Hex(args.q - 1, args.r), Hex(args.q, args.r - 1), Hex(args.q + 1, args.r - 1) >>
NeighborThere == Called("neighbors") /\ args.i = 5 /\ args.h = Hex(1, 2) /\ returned = Hex(2, 1)

\* C10: no plane with hexWidth <= 0 is ever there to be called.
NoNonPositivePlane == HasPlane => FGt(plane.hexWidth, Zero)

\* C11: neighbors(i) with an index i outside 0..5 ends in an error: it
\* returns no Hex, neither that of a clamped nor that of a wrapped index.
NeighborIndexRejected ==
    (op = "neighbors" /\ args.i \notin 0..5)
        => /\ status = "TypeError"
           /\ returned = <<>>
NeighborIndexOutside ==
    /\ op = "neighbors" /\ args.h = Hex(1, 2) /\ args.i = 6
    /\ status # "returns"

\* C12: a lookup in a HexArray with coordinates out of bounds returns
\* undefined and does not raise: get(h) of a Hex with h.q outside
\* [0, qMax) or h.r outside [0, rMax) returns undefined, and get(hs) of an
\* array returns, with undefined at every such hex.
OfHexArray == collection.kind = "HexArray"
OfHexMap == collection.kind = "HexMap"
InBounds(c, h) == 0 <= h.q /\ h.q < c.qMax /\ 0 <= h.r /\ h.r < c.rMax
OutOfBounds(hs) == {k \in 1..Len(hs) : ~InBounds(collection, hs[k])}
OutOfBoundsUndefined ==
    /\ (op = "get" /\ OfHexArray /\ ~InBounds(collection, args))
        => /\ status = "returns"
           /\ returned = Undefined
    /\ (op = "getAll" /\ OfHexArray /\ OutOfBounds(args) # {})
        => /\ status = "returns"
           /\ \A k \in OutOfBounds(args) : returned[k] = Undefined

\* C13: on a HexMap, and on a HexArray for the hexes in bounds, get(h) of
\* a Hex returns no value in a new collection; set(h, t) returns, and
\* after it get(h) returns t while get of every hex with other
\* coordinates returns what it returned before; and no other call changes
\* what get returns. So get(h) is always the payload of the most recent
\* set on the coordinates of h.
Holds(c, h) == c.kind = "HexMap" \/ InBounds(c, h)
Made == op' = "newHexArray" \/ op' = "newHexMap"
SetStep(h, t) ==
    \A other \in CollectionHexes :
        Holds(collection, other)
            => get(collection', other) = IF other = h THEN Returned(t) ELSE get(collection, other)
SetThenGetStep ==
    /\ Made
        => \A h \in CollectionHexes :
                Holds(collection', h) => get(collection', h) = Returned(Undefined)
    /\ (op' = "set" /\ Holds(collection, args'.h))
        => /\ status' = "returns"
           /\ SetStep(args'.h, args'.t)
    /\ (HasCollection /\ op' # "set")
        => \A h \in CollectionHexes : get(collection', h) = get(collection, h)
SetThenGet == [][SetThenGetStep]_vars

\* C14: get(hs) of an array of hexes returns an array as long as hs whose
\* k-th element is what get(hs[k]) returns, and neighbors(h) of the
\* collection returns what get returns for the six neighbors of h, in the
\* order of the directions.
IsGet(value, c, h) == get(c, h).status = "returns" /\ get(c, h).returned = value
Pointwise(hs) ==
    /\ status = "returns"
    /\ Len(returned) = Len(hs)
    /\ \A k \in 1..Len(hs) : IsGet(returned[k], collection, hs[k])
GetAllPointwise ==
    /\ op = "getAll" => Pointwise(args)
    /\ op = "collectionNeighborsAll"
        => Pointwise([k \in 1..6 |-> add(args, Units[k])])

\* C15: for integer floor indices iMin <= iMax, negative ones among them,
\* step two of getVisible adds 1 to iMax exactly when iMax - iMin is odd,
\* and the loop visits iMin, iMin + 2, ... up to the first value that is
\* at least the uncorrected iMax.
Visited(lo, hi) == {i \in lo..hi : (i - lo) % 2 = 0}
UpToFirstFrom(lo, hi) == {i \in lo..(hi + 1) : (i - lo) % 2 = 0 /\ i - 2 < hi}
FiniteRange(g) == IsFinite(g.iMin) /\ IsFinite(g.iMax0)
IMaxCorrectionOf(iMin, iMax0, iMax) ==
    iMin <= iMax0
        => /\ iMax = IF (iMax0 - iMin) % 2 = 1 THEN iMax0 + 1 ELSE iMax0
           /\ Visited(iMin, iMax) = UpToFirstFrom(iMin, iMax0)
IMaxCorrectionIn(g) ==
    FiniteRange(g) => IMaxCorrectionOf(Num(g.iMin), Num(g.iMax0), Num(g.iMax))
IMaxCorrection == op = "getVisible" => IMaxCorrectionIn(visibleRange(plane, args))

\* C16: getVisible emits no hex twice, the hexes of any two of the (i, j)
\* it visits differing in q or in r, and every hex it emits has integer
\* q and r.
VisibleDistinct ==
    Called("getVisible")
        => /\ \A k, l \in 1..Len(returned) : k # l => returned[k] # returned[l]
           /\ \A k \in 1..Len(returned) : returned[k].q \in Int /\ returned[k].r \in Int
VisibleColumnsAndRows ==
    /\ Called("getVisible") /\ PositiveWidth
    /\ \E k, l \in 1..Len(returned) : returned[k].r = returned[l].r /\ returned[k].q = returned[l].q + 1
    /\ \E k, l \in 1..Len(returned) : returned[k].q = returned[l].q /\ returned[k].r = returned[l].r + 1
    /\ \E k, l \in 1..Len(returned) : returned[k].q = returned[l].q - 1 /\ returned[k].r = returned[l].r + 1
====
